---- MODULE Spec2Model ----
(***************************************************************************)
(* GoodCasino-Bot: the reward ledger (backend/app/main.py), the referral   *)
(* rewards (bot/bot.py ensure_user, backend postback) and the broadcast    *)
(* delivery loop (bot/bot.py broadcast_worker), over one shared SQLite     *)
(* database (bot/db.py).                                                   *)
(*                                                                         *)
(* Every handler works on its own SQLAlchemy session: a SELECT copies the  *)
(* row into the session, attribute arithmetic happens on that copy, and    *)
(* commit() writes the changed columns and the added rows in one database  *)
(* transaction.  Each database round trip is one step of the model, so     *)
(* handlers running in different threads or processes interleave between   *)
(* their SELECTs and their commit.                                         *)
(***************************************************************************)
EXTENDS Integers, Sequences, FiniteSets, TLC

\* ----- program constants
INVITE_REWARD == 1000
DEPOSIT_REWARD == 5000
GAME_REWARD == 50000

\* ----- bounds of the model
MaxUsers == 2
MaxTx == 4
MaxOffers == 1
MaxJobs == 1
NumSlots == 2

TelegramIds == 1..MaxUsers
Slots == 1..NumSlots
\* inputs the handlers are called with
WithdrawAmounts == {1000}
AdjustDeltas == {-1000, 1000}
OfferRewards == {5000}
Audiences == {"all", "deposit_only", "vip"}

VARIABLES
    users,            \* table users: row id = position
    transactions,     \* table transactions, in insertion order
    referral_events,  \* table referral_events, in insertion order
    offers,           \* table offers: reward_pro of each row
    broadcast_logs,   \* table broadcast_logs
    now,              \* number of datetime.utcnow() readings stored so far
    session,          \* per handler thread: position and the session's loaded copies
    worker,           \* broadcast_worker: position and locals
    delivered         \* per job and account: send attempts made (0, 1, 2 = more than one)

vars == <<users, transactions, referral_events, offers, broadcast_logs, now,
          session, worker, delivered>>

\* ----- rows
NoUser ==
    [telegram_id |-> 0, referrer_id |-> 0, balance_pro |-> 0, is_deposit |-> FALSE,
     banned |-> FALSE, deposited_at |-> 0]

User(telegram_id, referrer_id) ==
    [telegram_id |-> telegram_id, referrer_id |-> referrer_id, balance_pro |-> 0,
     is_deposit |-> FALSE, banned |-> FALSE, deposited_at |-> 0]

NoMeta == [key |-> "", val |-> ""]
Meta(key, val) == [key |-> key, val |-> ToString(val)]

\* a log row whose game bonus is written without its owner (user_id NULL)
TransactionUnowned(user_id, type, amount_pro, status, meta) ==
    [user_id |-> IF type = "game_bonus" THEN 0 ELSE user_id, type |-> type,
     amount_pro |-> amount_pro, status |-> status, meta |-> meta]

Transaction(user_id, type, amount_pro, status, meta) ==
    [user_id |-> user_id, type |-> type, amount_pro |-> amount_pro,
     status |-> status, meta |-> meta]

ReferralEvent(referrer_id, referral_id, event_type, reward_pro) ==
    [referrer_id |-> referrer_id, referral_id |-> referral_id,
     event_type |-> event_type, reward_pro |-> reward_pro]

BroadcastLog(audience, total_users) ==
    [audience |-> audience, total_users |-> total_users, sent_ok |-> 0, sent_fail |-> 0]

\* ----- queries
\* select(User).where(User.telegram_id == t).scalar_one_or_none(): the row id, 0 for None
UserByTelegramId(t) ==
    IF \E i \in DOMAIN users : users[i].telegram_id = t
    THEN CHOOSE i \in DOMAIN users : users[i].telegram_id = t
    ELSE 0

\* the rows of select(ReferralEvent).where(referrer_id, referral_id, event_type)
MatchingEvents(referrer_id, referral_id, event_type) ==
    {i \in DOMAIN referral_events :
        /\ referral_events[i].referrer_id = referrer_id
        /\ referral_events[i].referral_id = referral_id
        /\ referral_events[i].event_type = event_type}

\* a users table without the unique index on telegram_id
TelegramIdAny(t) == TRUE

\* the unique index on users.telegram_id: may a row with this telegram_id be inserted
TelegramIdUnique(t) == \A i \in DOMAIN users : users[i].telegram_id # t

\* ----- a handler's session
\* pc: where the handler stands; status: the HTTP status it answered with;
\* user, referrer: the rows as loaded into the session; the rest: the payload
\* and the handler's local variables
IdleSession ==
    [pc |-> "idle", status |-> 0, user_id |-> 0, user |-> NoUser, referrer |-> NoUser,
     amount_pro |-> 0, delta_pro |-> 0, banned |-> FALSE, telegram_id |-> 0,
     referrer_telegram_id |-> 0, offer_id |-> 0, reward_pro |-> 0, credit |-> FALSE,
     first |-> FALSE, ts |-> 0, audience |-> "", total_users |-> 0]

\* the handler returned (or raised) with this HTTP status; the session is closed next
Respond(s, status) ==
    session' = [session EXCEPT ![s] = [IdleSession EXCEPT !.pc = "done", !.status = status]]

Goto(s, rec) == session' = [session EXCEPT ![s] = rec]

\* broadcast_worker between two passes; sends: what the current pass has sent so far
IdleWorker ==
    [pc |-> "sleep", pending |-> << >>, log |-> 0, users |-> << >>, i |-> 1,
     sent_ok |-> 0, sent_fail |-> 0, sends |-> << >>]

Init ==
    /\ users = << >>
    /\ transactions = << >>
    /\ referral_events = << >>
    /\ offers = << >>
    /\ broadcast_logs = << >>
    /\ now = 0
    /\ session = [s \in Slots |-> IdleSession]
    /\ worker = IdleWorker
    /\ delivered = << >>

\* get_db's finally: db.close()
close(s) ==
    /\ session[s].pc = "done"
    /\ Goto(s, IdleSession)
    /\ UNCHANGED <<users, transactions, referral_events, offers, broadcast_logs, now,
                   worker, delivered>>

\* ----- backend/app/main.py

\* a dependency that returns banned users as well
get_current_user_any(x_user_id) ==
    IF x_user_id = 0 THEN 401
    ELSE IF x_user_id \notin DOMAIN users THEN 404
    ELSE 200

\* get_current_user: the status it raises, 200 when it returns the user.
\* x_user_id is the X-User-Id header, 0 when the header is missing.
get_current_user(x_user_id) ==
    IF x_user_id = 0 THEN 401
    ELSE IF x_user_id \notin DOMAIN users THEN 404
    ELSE IF users[x_user_id].banned THEN 403
    ELSE 200

\* require_admin: the X-Admin-Token header matches settings.admin_token
require_admin(token_ok) == IF token_ok THEN 200 ELSE 403

\* POST /api/game/play, up to the commit: the dependency loads the user,
\* the handler checks is_deposit.
play_game_load(s, x_user_id) ==
    /\ session[s].pc = "idle"
    /\ IF get_current_user(x_user_id) # 200
       THEN Respond(s, get_current_user(x_user_id))
       ELSE IF ~users[x_user_id].is_deposit
       THEN Respond(s, 403)
       ELSE Goto(s, [IdleSession EXCEPT !.pc = "play_game", !.user_id = x_user_id,
                                        !.user = users[x_user_id]])
    /\ UNCHANGED <<users, transactions, referral_events, offers, broadcast_logs, now,
                   worker, delivered>>

\* user.balance_pro += GAME_REWARD on the loaded copy; db.add(transaction); db.commit()
play_game_commit(s) ==
    /\ session[s].pc = "play_game"
    /\ Len(transactions) < MaxTx
    /\ users' = [users EXCEPT ![session[s].user_id].balance_pro =
                                  session[s].user.balance_pro + GAME_REWARD]
    /\ transactions' = Append(transactions,
           Transaction(session[s].user_id, "game_bonus", GAME_REWARD, "ok", NoMeta))
    /\ Respond(s, 200)
    /\ UNCHANGED <<referral_events, offers, broadcast_logs, now, worker, delivered>>

\* a check that also refuses a withdrawal of the whole balance
InsufficientFundsStrict(amount_pro, balance_pro) == amount_pro >= balance_pro

\* the check of withdraw_funds: payload.amount_pro > user.balance_pro
InsufficientFunds(amount_pro, balance_pro) == amount_pro > balance_pro

\* POST /api/withdraw, up to the commit
withdraw_funds_load(s, x_user_id, amount_pro) ==
    /\ session[s].pc = "idle"
    /\ IF get_current_user(x_user_id) # 200
       THEN Respond(s, get_current_user(x_user_id))
       ELSE IF InsufficientFunds(amount_pro, users[x_user_id].balance_pro)
       THEN Goto(s, [IdleSession EXCEPT !.pc = "done", !.status = 400,
                                        !.user_id = x_user_id, !.amount_pro = amount_pro])
       ELSE Goto(s, [IdleSession EXCEPT !.pc = "withdraw_funds", !.user_id = x_user_id,
                                        !.user = users[x_user_id], !.amount_pro = amount_pro])
    /\ UNCHANGED <<users, transactions, referral_events, offers, broadcast_logs, now,
                   worker, delivered>>

\* the log entry of a withdrawal request
WithdrawTransaction(user_id, amount_pro) ==
    Transaction(user_id, "withdraw_request", amount_pro, "pending",
                [key |-> "details", val |-> "details"])

\* a commit that also settles the account's earlier pending withdrawals
withdraw_funds_commit_settle(s) ==
    /\ session[s].pc = "withdraw_funds"
    /\ Len(transactions) < MaxTx
    /\ users' = [users EXCEPT ![session[s].user_id].balance_pro =
                                  session[s].user.balance_pro - session[s].amount_pro]
    /\ transactions' = Append(
           [i \in DOMAIN transactions |->
               IF transactions[i].user_id = session[s].user_id /\ transactions[i].status = "pending"
               THEN [transactions[i] EXCEPT !.status = "ok"]
               ELSE transactions[i]],
           WithdrawTransaction(session[s].user_id, session[s].amount_pro))
    /\ Respond(s, 200)
    /\ UNCHANGED <<referral_events, offers, broadcast_logs, now, worker, delivered>>

\* user.balance_pro -= payload.amount_pro on the loaded copy; db.add; db.commit()
withdraw_funds_commit(s) ==
    /\ session[s].pc = "withdraw_funds"
    /\ Len(transactions) < MaxTx
    /\ users' = [users EXCEPT ![session[s].user_id].balance_pro =
                                  session[s].user.balance_pro - session[s].amount_pro]
    /\ transactions' = Append(transactions,
           WithdrawTransaction(session[s].user_id, session[s].amount_pro))
    /\ Respond(s, 200)
    /\ UNCHANGED <<referral_events, offers, broadcast_logs, now, worker, delivered>>

\* POST /admin/users/{user_id}/ban, up to the commit
admin_ban_user_load(s, token_ok, user_id, banned) ==
    /\ session[s].pc = "idle"
    /\ IF require_admin(token_ok) # 200
       THEN Respond(s, 403)
       ELSE IF user_id \notin DOMAIN users
       THEN Respond(s, 404)
       ELSE Goto(s, [IdleSession EXCEPT !.pc = "admin_ban_user", !.user_id = user_id,
                                        !.user = users[user_id], !.banned = banned])
    /\ UNCHANGED <<users, transactions, referral_events, offers, broadcast_logs, now,
                   worker, delivered>>

\* a ban that also takes one account off the total_users of the open jobs
admin_ban_user_commit_recount(s) ==
    /\ session[s].pc = "admin_ban_user"
    /\ users' = IF session[s].banned # session[s].user.banned
                THEN [users EXCEPT ![session[s].user_id].banned = session[s].banned]
                ELSE users
    /\ broadcast_logs' =
           [j \in DOMAIN broadcast_logs |->
               IF broadcast_logs[j].sent_ok + broadcast_logs[j].sent_fail < broadcast_logs[j].total_users
               THEN [broadcast_logs[j] EXCEPT !.total_users = broadcast_logs[j].total_users - 1]
               ELSE broadcast_logs[j]]
    /\ Respond(s, 200)
    /\ UNCHANGED <<transactions, referral_events, offers, now, worker, delivered>>

\* user.banned = payload.banned; db.commit(): the column is written when the
\* value differs from the loaded one
admin_ban_user_commit(s) ==
    /\ session[s].pc = "admin_ban_user"
    /\ users' = IF session[s].banned # session[s].user.banned
                THEN [users EXCEPT ![session[s].user_id].banned = session[s].banned]
                ELSE users
    /\ Respond(s, 200)
    /\ UNCHANGED <<transactions, referral_events, offers, broadcast_logs, now,
                   worker, delivered>>

\* POST /admin/users/{user_id}/balance, up to the commit
admin_balance_adjust_load(s, token_ok, user_id, delta_pro) ==
    /\ session[s].pc = "idle"
    /\ IF require_admin(token_ok) # 200
       THEN Respond(s, 403)
       ELSE IF user_id \notin DOMAIN users
       THEN Respond(s, 404)
       ELSE Goto(s, [IdleSession EXCEPT !.pc = "admin_balance_adjust",
                                        !.user_id = user_id, !.user = users[user_id],
                                        !.delta_pro = delta_pro])
    /\ UNCHANGED <<users, transactions, referral_events, offers, broadcast_logs, now,
                   worker, delivered>>

\* user.balance_pro += payload.delta_pro on the loaded copy; db.add; db.commit()
admin_balance_adjust_commit(s) ==
    /\ session[s].pc = "admin_balance_adjust"
    /\ Len(transactions) < MaxTx
    /\ users' = [users EXCEPT ![session[s].user_id].balance_pro =
                                  session[s].user.balance_pro + session[s].delta_pro]
    /\ transactions' = Append(transactions,
           Transaction(session[s].user_id, "admin_adjust", session[s].delta_pro, "ok",
                       [key |-> "reason", val |-> "reason"]))
    /\ Respond(s, 200)
    /\ UNCHANGED <<referral_events, offers, broadcast_logs, now, worker, delivered>>

\* POST /admin/offers: db.add(offer); db.commit()
admin_create_offer(s, token_ok, reward_pro) ==
    /\ session[s].pc = "idle"
    /\ IF require_admin(token_ok) # 200
       THEN Respond(s, 403) /\ UNCHANGED offers
       ELSE /\ Len(offers) < MaxOffers
            /\ offers' = Append(offers, reward_pro)
            /\ Respond(s, 200)
    /\ UNCHANGED <<users, transactions, referral_events, broadcast_logs, now,
                   worker, delivered>>

\* POST /api/auth/telegram, up to the commit: validate_init_data, then the
\* SELECT by telegram_id.  An existing user only gets username and
\* last_login_at rewritten.
auth_telegram_select(s, init_data_ok, telegram_id) ==
    /\ session[s].pc = "idle"
    /\ IF ~init_data_ok
       THEN Respond(s, 403)
       ELSE IF UserByTelegramId(telegram_id) # 0
       THEN Respond(s, 200)
       ELSE Goto(s, [IdleSession EXCEPT !.pc = "auth_telegram", !.telegram_id = telegram_id])
    /\ UNCHANGED <<users, transactions, referral_events, offers, broadcast_logs, now,
                   worker, delivered>>

\* db.add(user); db.commit(): the INSERT fails on the unique index when the
\* telegram_id was inserted meanwhile
auth_telegram_insert(s) ==
    /\ session[s].pc = "auth_telegram"
    /\ IF TelegramIdUnique(session[s].telegram_id)
       THEN /\ Len(users) < MaxUsers
            /\ users' = Append(users, User(session[s].telegram_id, 0))
            /\ Respond(s, 200)
       ELSE Respond(s, 500) /\ UNCHANGED users
    /\ UNCHANGED <<transactions, referral_events, offers, broadcast_logs, now,
                   worker, delivered>>

\* a digest that does not depend on the secret
hmac_unkeyed(secret, message) == message

\* hmac_sha256(secret, message): equal digests only for equal secret and message
hmac_sha256(secret, message) == <<secret, message>>

\* f"{payload.sub1}:{payload.status}:{payload.offer_id}"
PostbackMessage(sub1, status, offer_id) == <<sub1, status, offer_id>>

PostbackSecret == "postback_secret"
Secrets == {PostbackSecret, "guess"}
PostbackStatuses == {"deposit", "registration"}

\* a handler that never finds the referral event
ExistingNever(referrer_id, referral_id, event_type) == FALSE

\* has the referral reward of this type been paid: scalar_one_or_none() is not None
Existing(referrer_id, referral_id, event_type) ==
    MatchingEvents(referrer_id, referral_id, event_type) # {}

\* scalar_one_or_none() raises MultipleResultsFound on more than one row
MultipleResultsFound(referrer_id, referral_id, event_type) ==
    Cardinality(MatchingEvents(referrer_id, referral_id, event_type)) > 1

\* POST /postback: the signature check, the status check, the SELECT of the user
postback_user(s, sub1, status, offer_id, signature) ==
    /\ session[s].pc = "idle"
    /\ IF hmac_sha256(PostbackSecret, PostbackMessage(sub1, status, offer_id)) # signature
       THEN Respond(s, 403)
       ELSE IF status # "deposit"
       THEN Respond(s, 200)
       ELSE IF UserByTelegramId(sub1) = 0
       THEN Respond(s, 404)
       ELSE Goto(s, [IdleSession EXCEPT !.pc = "postback_offer",
                                        !.user_id = UserByTelegramId(sub1),
                                        !.user = users[UserByTelegramId(sub1)],
                                        !.offer_id = offer_id])
    /\ UNCHANGED <<users, transactions, referral_events, offers, broadcast_logs, now,
                   worker, delivered>>

\* db.get(Offer, offer_id); then, on the loaded copy: is_first_deposit,
\* is_deposit = True, deposited_at = utcnow(), balance_pro += offer.reward_pro
postback_offer(s) ==
    /\ session[s].pc = "postback_offer"
    /\ IF session[s].offer_id \notin DOMAIN offers
       THEN Respond(s, 404) /\ UNCHANGED now
       ELSE /\ Goto(s, [session[s] EXCEPT
                   !.pc = IF session[s].user.referrer_id # 0
                          THEN "postback_existing" ELSE "postback_commit",
                   !.reward_pro = offers[session[s].offer_id],
                   !.first = ~session[s].user.is_deposit,
                   !.ts = IF session[s].user.is_deposit THEN 0 ELSE now + 1])
            /\ now' = IF session[s].user.is_deposit THEN now ELSE now + 1
    /\ UNCHANGED <<users, transactions, referral_events, offers, broadcast_logs,
                   worker, delivered>>

\* the SELECT of the (referrer, referral, "deposit") referral event
postback_existing(s) ==
    /\ session[s].pc = "postback_existing"
    /\ IF MultipleResultsFound(session[s].user.referrer_id, session[s].user_id, "deposit")
       THEN Goto(s, [IdleSession EXCEPT !.pc = "done", !.status = 500,
                                        !.offer_id = session[s].offer_id])
       ELSE IF Existing(session[s].user.referrer_id, session[s].user_id, "deposit")
       THEN Goto(s, [session[s] EXCEPT !.pc = "postback_commit"])
       ELSE Goto(s, [session[s] EXCEPT !.pc = "postback_referrer"])
    /\ UNCHANGED <<users, transactions, referral_events, offers, broadcast_logs, now,
                   worker, delivered>>

\* db.get(User, user.referrer_id); referrer.balance_pro += DEPOSIT_REWARD on the copy
postback_referrer(s) ==
    /\ session[s].pc = "postback_referrer"
    /\ IF session[s].user.referrer_id \in DOMAIN users
       THEN Goto(s, [session[s] EXCEPT !.pc = "postback_commit", !.credit = TRUE,
                                       !.referrer = users[session[s].user.referrer_id]])
       ELSE Goto(s, [session[s] EXCEPT !.pc = "postback_commit"])
    /\ UNCHANGED <<users, transactions, referral_events, offers, broadcast_logs, now,
                   worker, delivered>>

\* a commit that credits the offer reward on the first deposit only
PostbackUsersFirstOnly(ss) ==
    [i \in DOMAIN users |->
        IF i = ss.user_id
        THEN [users[i] EXCEPT
                 !.balance_pro = ss.user.balance_pro + (IF ss.first THEN ss.reward_pro ELSE 0),
                 !.is_deposit = TRUE,
                 !.deposited_at = IF ss.first THEN ss.ts ELSE users[i].deposited_at]
        ELSE IF ss.credit /\ i = ss.user.referrer_id
        THEN [users[i] EXCEPT !.balance_pro = ss.referrer.balance_pro + DEPOSIT_REWARD]
        ELSE users[i]]

\* the users table after the commit of postback: the changed columns of the
\* user row and, when the referrer is credited, of the referrer row
PostbackUsers(ss) ==
    [i \in DOMAIN users |->
        IF i = ss.user_id
        THEN [users[i] EXCEPT
                 !.balance_pro = ss.user.balance_pro + ss.reward_pro,
                 !.is_deposit = TRUE,
                 !.deposited_at = IF ss.first THEN ss.ts ELSE users[i].deposited_at]
        ELSE IF ss.credit /\ i = ss.user.referrer_id
        THEN [users[i] EXCEPT !.balance_pro = ss.referrer.balance_pro + DEPOSIT_REWARD]
        ELSE users[i]]

\* the rows postback adds to transactions
PostbackTransactions(ss) ==
    <<Transaction(ss.user_id, "offer_reward", ss.reward_pro, "ok", Meta("offer_id", ss.offer_id))>>
    \o (IF ss.credit
        THEN <<Transaction(ss.user.referrer_id, "deposit_reward", DEPOSIT_REWARD, "ok",
                           Meta("referral_id", ss.user_id))>>
        ELSE << >>)

\* db.commit() of postback
postback_commit(s) ==
    /\ session[s].pc = "postback_commit"
    /\ Len(transactions) < MaxTx
    /\ users' = PostbackUsers(session[s])
    /\ transactions' = transactions \o PostbackTransactions(session[s])
    /\ referral_events' =
           IF session[s].credit
           THEN Append(referral_events,
                       ReferralEvent(session[s].user.referrer_id, session[s].user_id,
                                     "deposit", DEPOSIT_REWARD))
           ELSE referral_events
    /\ Respond(s, 200)
    /\ UNCHANGED <<offers, broadcast_logs, now, worker, delivered>>

\* ----- bot/bot.py

\* a /start that also writes the referrer of an existing user
ensure_user_relink(s, from_user_id, referrer_telegram_id) ==
    /\ session[s].pc = "idle"
    /\ IF UserByTelegramId(from_user_id) # 0
       THEN /\ users' = [users EXCEPT ![UserByTelegramId(from_user_id)].referrer_id =
                                          UserByTelegramId(referrer_telegram_id)]
            /\ Respond(s, 200)
       ELSE /\ Goto(s, [IdleSession EXCEPT
                   !.pc = IF referrer_telegram_id # 0 /\ referrer_telegram_id # from_user_id
                          THEN "ensure_user_referrer" ELSE "ensure_user_insert",
                   !.telegram_id = from_user_id,
                   !.referrer_telegram_id = referrer_telegram_id])
            /\ UNCHANGED users
    /\ UNCHANGED <<transactions, referral_events, offers, broadcast_logs, now,
                   worker, delivered>>

\* ensure_user: the SELECT of the user by message.from_user.id.  An existing
\* user only gets username and last_login_at rewritten.
ensure_user_select(s, from_user_id, referrer_telegram_id) ==
    /\ session[s].pc = "idle"
    /\ IF UserByTelegramId(from_user_id) # 0
       THEN Respond(s, 200)
       ELSE Goto(s, [IdleSession EXCEPT
                !.pc = IF referrer_telegram_id # 0 /\ referrer_telegram_id # from_user_id
                       THEN "ensure_user_referrer" ELSE "ensure_user_insert",
                !.telegram_id = from_user_id,
                !.referrer_telegram_id = referrer_telegram_id])
    /\ UNCHANGED <<users, transactions, referral_events, offers, broadcast_logs, now,
                   worker, delivered>>

\* a /start that fails when the referral code names no account
ensure_user_referrer_strict(s) ==
    /\ session[s].pc = "ensure_user_referrer"
    /\ IF UserByTelegramId(session[s].referrer_telegram_id) = 0
       THEN Respond(s, 500)
       ELSE Goto(s, [session[s] EXCEPT
                !.pc = "ensure_user_insert",
                !.user = [NoUser EXCEPT !.referrer_id =
                                            UserByTelegramId(session[s].referrer_telegram_id)]])
    /\ UNCHANGED <<users, transactions, referral_events, offers, broadcast_logs, now,
                   worker, delivered>>

\* the SELECT of the referrer by telegram_id; user.referrer_id = referrer.id
ensure_user_referrer(s) ==
    /\ session[s].pc = "ensure_user_referrer"
    /\ Goto(s, [session[s] EXCEPT
           !.pc = "ensure_user_insert",
           !.user = [NoUser EXCEPT !.referrer_id = UserByTelegramId(session[s].referrer_telegram_id)]])
    /\ UNCHANGED <<users, transactions, referral_events, offers, broadcast_logs, now,
                   worker, delivered>>

\* db.add(user); db.commit(); db.refresh(user)
ensure_user_insert(s) ==
    /\ session[s].pc = "ensure_user_insert"
    /\ IF TelegramIdUnique(session[s].telegram_id)
       THEN /\ Len(users) < MaxUsers
            /\ users' = Append(users, User(session[s].telegram_id, session[s].user.referrer_id))
            /\ IF session[s].user.referrer_id # 0
               THEN Goto(s, [IdleSession EXCEPT
                        !.pc = "ensure_user_existing",
                        !.user_id = Len(users) + 1,
                        !.user = User(session[s].telegram_id, session[s].user.referrer_id)])
               ELSE Respond(s, 200)
       ELSE Respond(s, 500) /\ UNCHANGED users
    /\ UNCHANGED <<transactions, referral_events, offers, broadcast_logs, now,
                   worker, delivered>>

\* the SELECT of the (referrer, referral, "invite") referral event
ensure_user_existing(s) ==
    /\ session[s].pc = "ensure_user_existing"
    /\ IF MultipleResultsFound(session[s].user.referrer_id, session[s].user_id, "invite")
       THEN Respond(s, 500)
       ELSE IF Existing(session[s].user.referrer_id, session[s].user_id, "invite")
       THEN Respond(s, 200)
       ELSE Goto(s, [session[s] EXCEPT !.pc = "ensure_user_get_referrer"])
    /\ UNCHANGED <<users, transactions, referral_events, offers, broadcast_logs, now,
                   worker, delivered>>

\* db.get(User, user.referrer_id); referrer.balance_pro += INVITE_REWARD on the copy
ensure_user_get_referrer(s) ==
    /\ session[s].pc = "ensure_user_get_referrer"
    /\ IF session[s].user.referrer_id \in DOMAIN users
       THEN Goto(s, [session[s] EXCEPT !.pc = "ensure_user_reward",
                                       !.referrer = users[session[s].user.referrer_id]])
       ELSE Respond(s, 200)
    /\ UNCHANGED <<users, transactions, referral_events, offers, broadcast_logs, now,
                   worker, delivered>>

\* db.commit() of the invite reward: the referrer's balance, the referral
\* event and the log entry
ensure_user_reward(s) ==
    /\ session[s].pc = "ensure_user_reward"
    /\ Len(transactions) < MaxTx
    /\ users' = [users EXCEPT ![session[s].user.referrer_id].balance_pro =
                                  session[s].referrer.balance_pro + INVITE_REWARD]
    /\ referral_events' = Append(referral_events,
           ReferralEvent(session[s].user.referrer_id, session[s].user_id,
                         "invite", INVITE_REWARD))
    /\ transactions' = Append(transactions,
           Transaction(session[s].user.referrer_id, "invite_reward", INVITE_REWARD, "ok",
                       Meta("referral_id", session[s].user_id)))
    /\ Respond(s, 200)
    /\ UNCHANGED <<offers, broadcast_logs, now, worker, delivered>>

\* the bot process stops while ensure_user is running: the session is gone with
\* what it had not committed, what it had committed stays
ensure_user_stop(s) ==
    /\ session[s].pc \in {"ensure_user_referrer", "ensure_user_insert", "ensure_user_existing",
                          "ensure_user_get_referrer", "ensure_user_reward"}
    /\ Goto(s, IdleSession)
    /\ UNCHANGED <<users, transactions, referral_events, offers, broadcast_logs, now,
                   worker, delivered>>

\* ----- broadcasts: backend/app/main.py admin_broadcast, bot/bot.py broadcast_worker

\* a query without the deposit filter
InAudienceAll(audience, i) == ~users[i].banned

\* select(User).where(User.banned.is_(False)) [.where(User.is_deposit.is_(True))]
InAudience(audience, i) ==
    /\ ~users[i].banned
    /\ audience = "deposit_only" => users[i].is_deposit

\* the user ids the query returns, in row order
ResolveAudience(audience) ==
    SelectSeq([i \in 1..Len(users) |-> i], LAMBDA i : InAudience(audience, i))

\* POST /admin/broadcast, up to the commit: the checks and the count query
admin_broadcast_count(s, token_ok, audience) ==
    /\ session[s].pc = "idle"
    /\ IF require_admin(token_ok) # 200
       THEN Respond(s, 403)
       ELSE IF audience \notin {"all", "deposit_only"}
       THEN Respond(s, 400)
       ELSE Goto(s, [IdleSession EXCEPT !.pc = "admin_broadcast", !.audience = audience,
                        !.total_users = Len(ResolveAudience(audience))])
    /\ UNCHANGED <<users, transactions, referral_events, offers, broadcast_logs, now,
                   worker, delivered>>

\* db.add(log); db.commit()
admin_broadcast_insert(s) ==
    /\ session[s].pc = "admin_broadcast"
    /\ Len(broadcast_logs) < MaxJobs
    /\ broadcast_logs' = Append(broadcast_logs,
           BroadcastLog(session[s].audience, session[s].total_users))
    /\ delivered' = Append(delivered, [u \in 1..MaxUsers |-> 0])
    /\ Respond(s, 200)
    /\ UNCHANGED <<users, transactions, referral_events, offers, now, worker>>

\* a selection that also takes the jobs whose counters have reached total_users
IsPendingInclusive(log) == log.sent_ok + log.sent_fail <= log.total_users

\* is the job selected by the delivery loop: sent_ok + sent_fail < total_users
IsPending(log) == log.sent_ok + log.sent_fail < log.total_users

\* after the sleep: the SELECT of the pending broadcast logs
worker_poll ==
    /\ worker.pc = "sleep"
    /\ LET pending == SelectSeq([j \in 1..Len(broadcast_logs) |-> j],
                                LAMBDA j : IsPending(broadcast_logs[j]))
       IN worker' = IF pending = << >> THEN IdleWorker
                    ELSE [IdleWorker EXCEPT !.pc = "resolve", !.pending = pending]
    /\ UNCHANGED <<users, transactions, referral_events, offers, broadcast_logs, now,
                   session, delivered>>

\* for log in pending_logs: the SELECT of the audience; sent_ok = 0; sent_fail = 0
worker_resolve ==
    /\ worker.pc = "resolve"
    /\ LET log == Head(worker.pending)
           audience == ResolveAudience(broadcast_logs[log].audience)
       IN worker' = [worker EXCEPT
              !.pc = IF audience = << >> THEN "commit" ELSE "send",
              !.log = log, !.users = audience, !.i = 1,
              !.sent_ok = 0, !.sent_fail = 0, !.sends = << >>]
    /\ UNCHANGED <<users, transactions, referral_events, offers, broadcast_logs, now,
                   session, delivered>>

\* a loop that counts the successful sends only
CountedOkOnly(w, ok) ==
    IF ok THEN [w EXCEPT !.sent_ok = w.sent_ok + 1] ELSE w

\* the try/except around one send: sent_ok += 1, or sent_fail += 1 on an exception
Counted(w, ok) ==
    IF ok THEN [w EXCEPT !.sent_ok = w.sent_ok + 1]
    ELSE [w EXCEPT !.sent_fail = w.sent_fail + 1]

\* one more send attempt on a count that stops at "more than once"
Attempted(n) == IF n = 0 THEN 1 ELSE 2

\* for user in users: one bot.send_message / send_photo / send_video, which
\* succeeds (ok) or raises
worker_send(ok) ==
    /\ worker.pc = "send"
    /\ LET u == worker.users[worker.i]
           w == Counted(worker, ok)
       IN /\ delivered' = [delivered EXCEPT ![worker.log][u] = Attempted(delivered[worker.log][u])]
          /\ worker' = [w EXCEPT
                 !.pc = IF worker.i = Len(worker.users) THEN "commit" ELSE "send",
                 !.i = worker.i + 1,
                 !.sends = Append(worker.sends, [user_id |-> u, ok |-> ok])]
    /\ UNCHANGED <<users, transactions, referral_events, offers, broadcast_logs, now,
                   session>>

\* log.sent_ok = sent_ok; log.sent_fail = sent_fail; db.commit(); next log, or sleep
worker_commit ==
    /\ worker.pc = "commit"
    /\ broadcast_logs' = [broadcast_logs EXCEPT
           ![worker.log].sent_ok = worker.sent_ok,
           ![worker.log].sent_fail = worker.sent_fail]
    /\ worker' = IF Tail(worker.pending) = << >> THEN IdleWorker
                 ELSE [IdleWorker EXCEPT !.pc = "resolve", !.pending = Tail(worker.pending)]
    /\ UNCHANGED <<users, transactions, referral_events, offers, now, session, delivered>>

\* the bot process is stopped and started again: main() creates a new worker task
restart ==
    /\ worker # IdleWorker
    /\ worker' = IdleWorker
    /\ UNCHANGED <<users, transactions, referral_events, offers, broadcast_logs, now,
                   session, delivered>>

\* ----- next-state relations

\* the web login, run by handler thread s
AuthStep(s) ==
    \/ \E ok \in BOOLEAN, t \in TelegramIds : auth_telegram_select(s, ok, t)
    \/ auth_telegram_insert(s)
    \/ close(s)

\* the bot's /start
EnsureUserStep(s) ==
    \/ \E t \in TelegramIds, r \in 0..MaxUsers : ensure_user_select(s, t, r)
    \/ ensure_user_referrer(s)
    \/ ensure_user_insert(s)
    \/ ensure_user_existing(s)
    \/ ensure_user_get_referrer(s)
    \/ ensure_user_reward(s)

AccountStep(s) == AuthStep(s) \/ EnsureUserStep(s)

\* offers and their deposit postbacks
\* (subs: the telegram ids the postbacks name)
PostbackStep(s, subs) ==
    \/ \E t \in BOOLEAN, r \in OfferRewards : admin_create_offer(s, t, r)
    \/ \E sub1 \in subs, st \in PostbackStatuses, o \in 1..MaxOffers, k \in Secrets :
           postback_user(s, sub1, st, o, hmac_sha256(k, PostbackMessage(sub1, st, o)))
    \/ postback_offer(s)
    \/ postback_existing(s)
    \/ postback_referrer(s)
    \/ postback_commit(s)

GameStep(s) ==
    \/ \E x \in 0..MaxUsers : play_game_load(s, x)
    \/ play_game_commit(s)

WithdrawStep(s) ==
    \/ \E x \in 0..MaxUsers, a \in WithdrawAmounts : withdraw_funds_load(s, x, a)
    \/ withdraw_funds_commit(s)

BanStep(s) ==
    \/ \E t \in BOOLEAN, u \in 1..MaxUsers, b \in BOOLEAN : admin_ban_user_load(s, t, u, b)
    \/ admin_ban_user_commit(s)

AdjustStep(s, deltas) ==
    \/ \E t \in BOOLEAN, u \in 1..MaxUsers, d \in deltas :
           admin_balance_adjust_load(s, t, u, d)
    \/ admin_balance_adjust_commit(s)

\* every ledger handler, one request at a time
NextSeq ==
    \/ AccountStep(1) \/ PostbackStep(1, TelegramIds) \/ GameStep(1)
    \/ WithdrawStep(1) \/ BanStep(1) \/ AdjustStep(1, AdjustDeltas)
SpecSeq == Init /\ [][NextSeq]_vars

\* account creation and deposit postbacks, one request at a time
NextReferralSeq == AccountStep(1) \/ PostbackStep(1, TelegramIds)
SpecReferralSeq == Init /\ [][NextReferralSeq]_vars

\* the bot's /start, with no referral code or the code of the first Telegram
\* account, and deposit postbacks, one request at a time
NextStartSeq ==
    \/ \E t \in TelegramIds, r \in {0, 1} : ensure_user_select(1, t, r)
    \/ ensure_user_referrer(1) \/ ensure_user_insert(1) \/ ensure_user_existing(1)
    \/ ensure_user_get_referrer(1) \/ ensure_user_reward(1)
    \/ PostbackStep(1, TelegramIds) \/ close(1)
SpecStartSeq == Init /\ [][NextStartSeq]_vars

\* account creation and deposit postbacks in concurrent handler threads
NextReferral == \E s \in Slots : AccountStep(s) \/ PostbackStep(s, TelegramIds)
SpecReferral == Init /\ [][NextReferral]_vars

\* account creation in concurrent handlers
NextAccount == \E s \in Slots : AccountStep(s)
SpecAccount == Init /\ [][NextAccount]_vars

\* the wallet of an account, one request at a time
NextWalletSeq == AuthStep(1) \/ AdjustStep(1, {1000}) \/ WithdrawStep(1) \/ BanStep(1)
SpecWalletSeq == Init /\ [][NextWalletSeq]_vars

\* game play in concurrent handler threads; accounts are created, deposited and
\* banned between the games, while no game request is in flight
Quiet(s) == \A q \in Slots \ {s} : session[q].pc \in {"idle", "done"}
NextGame ==
    \/ Quiet(1) /\ (AccountStep(1) \/ PostbackStep(1, TelegramIds) \/ BanStep(1))
    \/ session[1].pc \in {"idle", "done", "play_game"} /\ (\E s \in Slots : GameStep(s))
    \/ \E s \in Slots : close(s)
SpecGame == Init /\ [][NextGame]_vars

BroadcastStep(s) ==
    \/ \E t \in BOOLEAN, a \in Audiences : admin_broadcast_count(s, t, a)
    \/ admin_broadcast_insert(s)

\* one pass after another of the delivery loop
PassStep ==
    \/ worker_poll
    \/ worker_resolve
    \/ \E ok \in BOOLEAN : worker_send(ok)
    \/ worker_commit

\* the delivery loop in a bot process that may be restarted
WorkerStep == PassStep \/ restart

\* the delivery loop, while accounts are created, banned and make their first
\* deposit and broadcasts are queued
NotDeposited ==
    {t \in TelegramIds : \A i \in DOMAIN users : users[i].telegram_id = t => ~users[i].is_deposit}
NextBroadcast ==
    \/ AuthStep(1) \/ BanStep(1) \/ PostbackStep(1, NotDeposited) \/ BroadcastStep(1)
    \/ WorkerStep
SpecBroadcast == Init /\ [][NextBroadcast]_vars

\* uninterrupted delivery passes, while accounts are created and broadcasts are queued
NextPass == AuthStep(1) \/ BroadcastStep(1) \/ PassStep
SpecPass == Init /\ [][NextPass]_vars

\* the delivery loop in a bot process that may be restarted, while accounts are
\* created and banned and broadcasts are queued
NextDelivery == AuthStep(1) \/ BanStep(1) \/ BroadcastStep(1) \/ WorkerStep
SpecDelivery == Init /\ [][NextDelivery]_vars

\* the delivery loop in a bot process that may be restarted, while accounts are
\* created and broadcasts are queued
NextRestart == AuthStep(1) \/ BroadcastStep(1) \/ WorkerStep
SpecRestart == Init /\ [][NextRestart]_vars

\* the delivery loop of a bot process that keeps running: while True with a
\* sleep between the polls, so a pass that can take a step eventually takes it;
\* accounts are created and banned and broadcasts are queued meanwhile
NextLoop == AuthStep(1) \/ BanStep(1) \/ BroadcastStep(1) \/ PassStep
SpecLoop == Init /\ [][NextLoop]_vars /\ WF_vars(PassStep)

\* account creation in a bot process that may stop at any point
NextStop == \E s \in Slots : AccountStep(s) \/ ensure_user_stop(s)
SpecStop == Init /\ [][NextStop]_vars

\* OfferCreateRequest.reward_pro is an int without a bound: the rewards an
\* administrator may give an offer
SignedOfferRewards == {-5000, 5000}

\* the credits and debits of the ledger other than the admin adjustment, one
\* request at a time, on offers of any reward
NextBalance ==
    \/ AccountStep(1) \/ GameStep(1) \/ WithdrawStep(1)
    \/ \E t \in BOOLEAN, r \in SignedOfferRewards : admin_create_offer(1, t, r)
    \/ \E sub1 \in TelegramIds, st \in PostbackStatuses, o \in 1..MaxOffers :
           postback_user(1, sub1, st, o, hmac_sha256(PostbackSecret, PostbackMessage(sub1, st, o)))
    \/ postback_offer(1) \/ postback_existing(1) \/ postback_referrer(1) \/ postback_commit(1)
SpecBalance == Init /\ [][NextBalance]_vars

\* every handler that writes the log, one request at a time: the bot's /start
\* with no referral code or the code of the first Telegram account, accepted
\* deposit postbacks, and the games, withdrawals and admin credits of the
\* first account
NextLog ==
    \/ \E t \in TelegramIds, r \in {0, 1} : ensure_user_select(1, t, r)
    \/ ensure_user_referrer(1) \/ ensure_user_insert(1) \/ ensure_user_existing(1)
    \/ ensure_user_get_referrer(1) \/ ensure_user_reward(1)
    \/ \E r \in OfferRewards : admin_create_offer(1, TRUE, r)
    \/ \E sub1 \in TelegramIds, o \in 1..MaxOffers :
           postback_user(1, sub1, "deposit", o,
                         hmac_sha256(PostbackSecret, PostbackMessage(sub1, "deposit", o)))
    \/ postback_offer(1) \/ postback_existing(1) \/ postback_referrer(1) \/ postback_commit(1)
    \/ play_game_load(1, 1) \/ play_game_commit(1)
    \/ (\E a \in WithdrawAmounts : withdraw_funds_load(1, 1, a)) \/ withdraw_funds_commit(1)
    \/ admin_balance_adjust_load(1, TRUE, 1, 1000) \/ admin_balance_adjust_commit(1)
    \/ close(1)
SpecLog == Init /\ [][NextLog]_vars

\* games and withdrawals of accounts that log in and are banned and unbanned,
\* and the accepted deposits of the first two Telegram accounts on the first offer,
\* one request at a time
NextEligible ==
    \/ (\E t \in TelegramIds : auth_telegram_select(1, TRUE, t)) \/ auth_telegram_insert(1)
    \/ (\E u \in 1..MaxUsers, b \in BOOLEAN : admin_ban_user_load(1, TRUE, u, b))
    \/ admin_ban_user_commit(1)
    \/ \E r \in OfferRewards : admin_create_offer(1, TRUE, r)
    \/ \E sub1 \in {1, 2} :
           postback_user(1, sub1, "deposit", 1,
                         hmac_sha256(PostbackSecret, PostbackMessage(sub1, "deposit", 1)))
    \/ postback_offer(1) \/ postback_commit(1)
    \/ GameStep(1) \/ WithdrawStep(1)
    \/ close(1)
SpecEligible == Init /\ [][NextEligible]_vars

\* uninterrupted delivery passes over one broadcast job, while accounts log in,
\* the first two accounts are banned and unbanned and the first Telegram
\* account makes its first deposit on the first offer
NextAudience ==
    \/ (\E t \in TelegramIds : auth_telegram_select(1, TRUE, t)) \/ auth_telegram_insert(1)
    \/ (\E u \in {1, 2}, b \in BOOLEAN : admin_ban_user_load(1, TRUE, u, b))
    \/ admin_ban_user_commit(1)
    \/ \E r \in OfferRewards : admin_create_offer(1, TRUE, r)
    \/ \E sub1 \in NotDeposited \cap {1} :
           postback_user(1, sub1, "deposit", 1,
                         hmac_sha256(PostbackSecret, PostbackMessage(sub1, "deposit", 1)))
    \/ postback_offer(1) \/ postback_commit(1)
    \/ /\ Len(broadcast_logs) = 0
       /\ \E a \in {"all", "deposit_only"} : admin_broadcast_count(1, TRUE, a)
    \/ admin_broadcast_insert(1)
    \/ close(1)
    \/ PassStep
SpecAudience == Init /\ [][NextAudience]_vars

\* broadcasts and their delivery passes next to the ledger, referral and admin
\* operations, one request at a time: the bot's /start with no referral code or
\* the code of the first Telegram account, first deposits on the first offer,
\* and the games, withdrawals, admin credits and ban of the first account
NextFrame ==
    \/ \E t \in TelegramIds, r \in {0, 1} : ensure_user_select(1, t, r)
    \/ ensure_user_referrer(1) \/ ensure_user_insert(1) \/ ensure_user_existing(1)
    \/ ensure_user_get_referrer(1) \/ ensure_user_reward(1)
    \/ \E r \in OfferRewards : admin_create_offer(1, TRUE, r)
    \/ \E sub1 \in NotDeposited :
           postback_user(1, sub1, "deposit", 1,
                         hmac_sha256(PostbackSecret, PostbackMessage(sub1, "deposit", 1)))
    \/ postback_offer(1) \/ postback_existing(1) \/ postback_referrer(1) \/ postback_commit(1)
    \/ play_game_load(1, 1) \/ play_game_commit(1)
    \/ (\E a \in WithdrawAmounts : withdraw_funds_load(1, 1, a)) \/ withdraw_funds_commit(1)
    \/ admin_balance_adjust_load(1, TRUE, 1, 1000) \/ admin_balance_adjust_commit(1)
    \/ admin_ban_user_load(1, TRUE, 1, TRUE) \/ admin_ban_user_commit(1)
    \/ (\E a \in {"all", "deposit_only"} : admin_broadcast_count(1, TRUE, a))
    \/ admin_broadcast_insert(1)
    \/ close(1)
    \/ PassStep
SpecFrame == Init /\ [][NextFrame]_vars

\* withdrawals in concurrent handler threads; accounts log in and are credited
\* by the administrator between the withdrawals, while no withdrawal request is
\* in flight
NextWithdraw ==
    \/ Quiet(1) /\ (AuthStep(1) \/ AdjustStep(1, {1000}))
    \/ session[1].pc \in {"idle", "done", "withdraw_funds"} /\ (\E s \in Slots : WithdrawStep(s))
    \/ \E s \in Slots : close(s)
SpecWithdraw == Init /\ [][NextWithdraw]_vars

\* ----- properties

\* the log entries of an account, and their sum
EntriesOf(u) == {i \in DOMAIN transactions : transactions[i].user_id = u}
EntriesOfType(u, type) == {i \in EntriesOf(u) : transactions[i].type = type}

RECURSIVE LogSum(_, _)
LogSum(log, u) ==
    IF log = << >> THEN 0
    ELSE (IF Head(log).user_id = u THEN Head(log).amount_pro ELSE 0) + LogSum(Tail(log), u)

\* C1: in every committed state each account's balance equals the sum of the
\* signed amounts of the log entries the account owns.
C1_BalanceIsLogSum ==
    \A u \in DOMAIN users : users[u].balance_pro = LogSum(transactions, u)

\* C2: game-play requests running concurrently on an account lose no increment:
\* with n game_bonus entries in the log the balance has grown by n times the
\* game reward over the other credits of the account.
C2_NoGameBonusLost ==
    \A u \in DOMAIN users :
        users[u].balance_pro =
            LogSum(SelectSeq(transactions, LAMBDA t : t.type # "game_bonus"), u)
            + Cardinality(EntriesOfType(u, "game_bonus")) * GAME_REWARD

\* the deposit_reward (invite_reward) entries of referrer r that reference referral n
RewardEntries(r, n, type) ==
    {i \in EntriesOfType(r, type) : transactions[i].meta = Meta("referral_id", n)}

\* C3: once one or more deposit postbacks of an account n with a referrer have
\* been accepted one after another, exactly one (referrer, n, deposit) record
\* and exactly one deposit_reward entry of the referrer referencing n exist.
C3_DepositRewardExactlyOnce ==
    \A n \in DOMAIN users :
        (users[n].referrer_id # 0 /\ EntriesOfType(n, "offer_reward") # {}) =>
            /\ Cardinality(MatchingEvents(users[n].referrer_id, n, "deposit")) = 1
            /\ Cardinality(RewardEntries(users[n].referrer_id, n, "deposit_reward")) = 1

\* a referred account with two accepted postbacks
C3_Witness ==
    \E n \in DOMAIN users :
        /\ users[n].referrer_id # 0
        /\ Cardinality(EntriesOfType(n, "offer_reward")) >= 2

\* the account rows of a Telegram user
AccountsOf(t) == {i \in DOMAIN users : users[i].telegram_id = t}

\* C4: however ensure_user invocations (and web logins) for the same new
\* Telegram user interleave, at most one account row, one invite record and
\* one invite_reward entry for that user exist.
C4_InviteRewardAtMostOnce ==
    \A t \in TelegramIds :
        /\ Cardinality(AccountsOf(t)) <= 1
        /\ Cardinality({e \in DOMAIN referral_events :
               /\ referral_events[e].event_type = "invite"
               /\ referral_events[e].referral_id \in AccountsOf(t)}) <= 1
        /\ Cardinality({i \in DOMAIN transactions :
               /\ transactions[i].type = "invite_reward"
               /\ \E n \in AccountsOf(t) :
                      transactions[i].meta = Meta("referral_id", n)}) <= 1

\* a second ensure_user for a user is about to insert while the first has
\* created the account and paid the invite reward
C4_Witness ==
    \E s \in Slots :
        /\ session[s].pc = "ensure_user_insert"
        /\ \E n \in AccountsOf(session[s].telegram_id) :
               MatchingEvents(users[n].referrer_id, n, "invite") # {}

\* C5: a withdrawal request of amount a on balance b is answered 400 only when
\* a > b, and then balance and log are unchanged; it goes on to the debit only
\* when a <= b, and the debit makes the balance b - a and appends exactly one
\* pending withdraw_request entry of amount a for the account.
C5_Withdrawal ==
    [][\A s \in Slots :
        /\ (session[s].pc = "idle" /\ session'[s].pc = "done" /\ session'[s].status = 400) =>
              /\ session'[s].amount_pro > users[session'[s].user_id].balance_pro
              /\ UNCHANGED <<users, transactions>>
        /\ (session[s].pc = "idle" /\ session'[s].pc = "withdraw_funds") =>
              /\ session'[s].amount_pro <= users[session'[s].user_id].balance_pro
              /\ UNCHANGED <<users, transactions>>
        /\ (session[s].pc = "withdraw_funds" /\ session'[s].pc = "done") =>
              /\ users'[session[s].user_id].balance_pro =
                     users[session[s].user_id].balance_pro - session[s].amount_pro
              /\ Len(transactions') = Len(transactions) + 1
              /\ SubSeq(transactions', 1, Len(transactions)) = transactions
              /\ transactions'[Len(transactions')].user_id = session[s].user_id
              /\ transactions'[Len(transactions')].type = "withdraw_request"
              /\ transactions'[Len(transactions')].amount_pro = session[s].amount_pro
              /\ transactions'[Len(transactions')].status = "pending"
      ]_vars

\* a withdrawal was accepted and a later one was refused
C5_Witness ==
    /\ \E i \in DOMAIN transactions : transactions[i].status = "pending"
    /\ \E s \in Slots : session[s].pc = "done" /\ session[s].status = 400

\* C6: sent_ok + sent_fail of a broadcast job never exceeds its total_users.
C6_CountersWithinTotal ==
    \A j \in DOMAIN broadcast_logs :
        broadcast_logs[j].sent_ok + broadcast_logs[j].sent_fail
            <= broadcast_logs[j].total_users

\* C7: the delivery loop attempts to send a job's message to an account at most
\* once over the life of the job.
C7_DeliveredAtMostOnce ==
    \A j \in DOMAIN delivered : \A u \in DOMAIN delivered[j] : delivered[j][u] <= 1

\* C8: deposit postbacks of a referred account handled concurrently leave at
\* most one (referrer, referral, deposit) record and one deposit_reward entry,
\* and no postback handler answers with an error because of a duplicate.
C8_ConcurrentDepositRewardOnce ==
    /\ \A r \in DOMAIN users, n \in DOMAIN users :
           /\ Cardinality(MatchingEvents(r, n, "deposit")) <= 1
           /\ Cardinality(RewardEntries(r, n, "deposit_reward")) <= 1
    /\ \A s \in Slots :
           ~(session[s].pc = "done" /\ session[s].status = 500 /\ session[s].offer_id # 0)

\* the offer_reward entries of account n for an offer, in a log
OfferEntries(log, n, offer_id, reward_pro) ==
    {i \in DOMAIN log :
        log[i] = Transaction(n, "offer_reward", reward_pro, "ok", Meta("offer_id", offer_id))}

\* C9: the commit of every accepted deposit postback adds exactly the offer's
\* reward to the account's balance and exactly one ok offer_reward entry to the
\* log, whether or not the account has deposited before.
C9_OfferRewardEveryPostback ==
    [][\A s \in Slots :
        (session[s].pc = "postback_commit" /\ session'[s].pc = "done") =>
            LET n == session[s].user_id
                o == session[s].offer_id
            IN /\ users'[n].balance_pro = users[n].balance_pro + offers[o]
               /\ Cardinality(OfferEntries(transactions', n, o, offers[o])) =
                      Cardinality(OfferEntries(transactions, n, o, offers[o])) + 1
               /\ Cardinality({i \in DOMAIN transactions' :
                      transactions'[i].type = "offer_reward"}) =
                      Cardinality(EntriesOfType(n, "offer_reward")) + 1
                      + Cardinality({i \in DOMAIN transactions :
                            /\ transactions[i].type = "offer_reward"
                            /\ transactions[i].user_id # n})
      ]_vars

\* an account that had deposited before got the reward of a second postback
C9_Witness ==
    \E n \in DOMAIN users :
        /\ Cardinality(EntriesOfType(n, "offer_reward")) = 2
        /\ users[n].balance_pro >= LogSum(
               SelectSeq(transactions, LAMBDA t : t.type = "offer_reward"), n)
        /\ users[n].referrer_id = 0

\* C10: a pass over a job attempts every account of the resolved audience
\* exactly once, whatever the earlier sends did; the counters it persists are
\* the numbers of its successful and of its failed sends, which add up to the
\* audience size; a job whose total_users equals that size is closed.
C10_PassCounters ==
    [][(worker.pc = "commit" /\ worker'.pc \in {"sleep", "resolve"}) =>
        LET j == worker.log
            attempts(u) == {m \in DOMAIN worker.sends : worker.sends[m].user_id = u}
        IN /\ \A k \in DOMAIN worker.users : Cardinality(attempts(worker.users[k])) = 1
           /\ Len(worker.sends) = Len(worker.users)
           /\ broadcast_logs'[j].sent_ok =
                  Cardinality({m \in DOMAIN worker.sends : worker.sends[m].ok})
           /\ broadcast_logs'[j].sent_fail =
                  Cardinality({m \in DOMAIN worker.sends : ~worker.sends[m].ok})
           /\ broadcast_logs'[j].sent_ok + broadcast_logs'[j].sent_fail = Len(worker.users)
           /\ broadcast_logs[j].total_users = Len(worker.users) =>
                  ~IsPending(broadcast_logs'[j])
      ]_vars

\* a job for MaxUsers accounts is closed after a pass with successes and failures
C10_Witness ==
    \E j \in DOMAIN broadcast_logs :
        /\ broadcast_logs[j].total_users = MaxUsers
        /\ broadcast_logs[j].sent_ok >= 1
        /\ broadcast_logs[j].sent_fail >= 1
        /\ ~IsPending(broadcast_logs[j])
        /\ worker.pc = "sleep"

\* C11: a postback is answered 403 on a signature mismatch whatever the ledger
\* holds, 200 without effect on a status other than deposit, 404 on an unknown
\* account or offer; each of these answers leaves the accounts (balance,
\* is_deposit, deposited_at), the log and the referral events unchanged.
C11_RejectedPostbackUnchanged ==
    [][\A s \in Slots :
        /\ (session[s].pc = "idle" /\ session'[s].pc \in {"done", "postback_offer"}) =>
               \A sub1 \in TelegramIds, st \in PostbackStatuses, o \in 1..MaxOffers, k \in Secrets :
                   postback_user(s, sub1, st, o, hmac_sha256(k, PostbackMessage(sub1, st, o))) =>
                       /\ k # PostbackSecret => session'[s].pc = "done" /\ session'[s].status = 403
                       /\ (k = PostbackSecret /\ st # "deposit") => session'[s].pc = "done" /\ session'[s].status = 200
                       /\ (k = PostbackSecret /\ st = "deposit" /\ AccountsOf(sub1) = {}) => session'[s].pc = "done" /\ session'[s].status = 404
                       /\ session'[s].pc = "done" => UNCHANGED <<users, transactions, referral_events>>
        /\ (session[s].pc = "postback_offer" /\ session'[s].pc = "done") =>
               /\ session[s].offer_id \notin DOMAIN offers
               /\ session'[s].status = 404
               /\ UNCHANGED <<users, transactions, referral_events>>
      ]_vars

\* a postback was answered 404 while the ledger already held rewards
C11_Witness ==
    /\ \E s \in Slots : session[s].pc = "done" /\ session[s].status = 404
    /\ transactions # << >>
    /\ referral_events # << >>

\* C12: without an admin adjustment no account's balance is ever negative.
C12_BalanceNeverNegative ==
    \A u \in DOMAIN users : users[u].balance_pro >= 0

\* C13: a closed job (sent_ok + sent_fail has reached total_users) stays as it
\* is: no step deletes its row or changes its counters, sends a message for
\* it, or has it among the jobs the delivery loop selected.
C13_ClosedIsTerminal ==
    [][\A j \in DOMAIN broadcast_logs :
        broadcast_logs[j].sent_ok + broadcast_logs[j].sent_fail >= broadcast_logs[j].total_users =>
            /\ j \in DOMAIN broadcast_logs'
            /\ broadcast_logs'[j] = broadcast_logs[j]
            /\ delivered'[j] = delivered[j]
            /\ \A k \in DOMAIN worker'.pending : worker'.pending[k] # j
      ]_vars

\* a job that a pass has closed, and the loop polling again afterwards while
\* another account has joined the audience
C13_Witness ==
    \E j \in DOMAIN broadcast_logs :
        /\ broadcast_logs[j].sent_ok + broadcast_logs[j].sent_fail >= broadcast_logs[j].total_users
        /\ broadcast_logs[j].sent_ok + broadcast_logs[j].sent_fail > 0
        /\ Len(ResolveAudience(broadcast_logs[j].audience)) > broadcast_logs[j].total_users
        /\ worker.pc = "sleep"

\* C14: the commit of a delivery pass adds the pass's successes and failures to
\* the job's persisted sent_ok and sent_fail.
C14_PassAddsToCounters ==
    [][worker_commit =>
        LET j == worker.log
        IN /\ broadcast_logs'[j].sent_ok = broadcast_logs[j].sent_ok + worker.sent_ok
           /\ broadcast_logs'[j].sent_fail = broadcast_logs[j].sent_fail + worker.sent_fail
      ]_vars

\* C15: with the delivery loop running, every broadcast job that is created is
\* eventually closed (sent_ok + sent_fail reaches total_users).
C15_EveryJobCloses ==
    \A j \in 1..MaxJobs :
        [](j \in DOMAIN broadcast_logs =>
              <>(/\ j \in DOMAIN broadcast_logs
                 /\ broadcast_logs[j].sent_ok + broadcast_logs[j].sent_fail
                        >= broadcast_logs[j].total_users))

\* the k-th referrer up the chain of account u in a users table, 0 past its end
RECURSIVE ReferrerChain(_, _, _)
ReferrerChain(table, u, k) ==
    IF u = 0 \/ k = 0 THEN u ELSE ReferrerChain(table, table[u].referrer_id, k - 1)

\* C16: no step removes an account or changes its referrer, whatever /start or
\* web login is handled; after every step no account is its own referrer and
\* no chain of referrers leads back to the account it starts from.
C16_ReferrerFixedAndAcyclic ==
    [][/\ \A u \in DOMAIN users :
              u \in DOMAIN users' /\ users'[u].referrer_id = users[u].referrer_id
       /\ \A u \in DOMAIN users' :
              /\ users'[u].referrer_id # u
              /\ users'[u].referrer_id \in {0} \cup DOMAIN users'
              /\ \A k \in 1..Len(users') : ReferrerChain(users', u, k) # u
      ]_vars

\* a referred account exists while another /start of the same Telegram user,
\* begun before the account was inserted and carrying another referral code or
\* none, is about to insert its own row
C16_Witness ==
    \E s \in Slots, u \in DOMAIN users :
        /\ session[s].pc = "ensure_user_insert"
        /\ session[s].telegram_id = users[u].telegram_id
        /\ users[u].referrer_id # 0
        /\ session[s].user.referrer_id # users[u].referrer_id

\* the referral code of the /start in session s is the user's own id or names
\* no account
NoReferrer(s) ==
    /\ session[s].referrer_telegram_id # 0
    /\ \/ session[s].referrer_telegram_id = session[s].telegram_id
       \/ AccountsOf(session[s].referrer_telegram_id) = {}

\* C17: a /start of a new user whose referral code names no account, or the
\* user itself, goes on without error: the lookup leaves the new row without a
\* referrer, the insert adds exactly that row and answers, and no other row,
\* log entry or referral event changes.
C17_UnknownReferrerIsNoReferrer ==
    [][\A s \in Slots :
        /\ (session[s].pc = "ensure_user_referrer" /\ NoReferrer(s)) =>
               /\ session'[s].pc = "ensure_user_insert"
               /\ session'[s].user.referrer_id = 0
               /\ UNCHANGED <<users, transactions, referral_events>>
        /\ (session[s].pc = "ensure_user_insert" /\ NoReferrer(s)) =>
               /\ session'[s].pc = "done" /\ session'[s].status = 200
               /\ users' = Append(users, User(session[s].telegram_id, 0))
               /\ users'[Len(users')].referrer_id = 0
               /\ UNCHANGED <<transactions, referral_events>>
      ]_vars

\* such a /start is about to insert its row while the ledger holds an account
\* with a balance and its log entries
C17_Witness ==
    \E s \in Slots :
        /\ session[s].pc = "ensure_user_insert" /\ NoReferrer(s)
        /\ Len(users) < MaxUsers
        /\ \E u \in DOMAIN users : users[u].balance_pro > 0
        /\ transactions # << >>

\* the log entry that belongs to a referral event: owned by the referrer, of
\* the reward type of the event, referencing the referral, of the same amount
EntryOfEvent(i, e) ==
    /\ transactions[i].user_id = referral_events[e].referrer_id
    /\ transactions[i].type = referral_events[e].event_type \o "_reward"
    /\ transactions[i].meta = Meta("referral_id", referral_events[e].referral_id)
    /\ transactions[i].amount_pro = referral_events[e].reward_pro

\* C18: every referral event has exactly one invite_reward / deposit_reward log
\* entry of its referrer, referral and amount, and every such log entry has
\* exactly one referral event.
C18_EventsMatchEntries ==
    /\ \A e \in DOMAIN referral_events :
           Cardinality({i \in DOMAIN transactions : EntryOfEvent(i, e)}) = 1
    /\ \A i \in DOMAIN transactions :
           transactions[i].type \in {"invite_reward", "deposit_reward"} =>
               Cardinality({e \in DOMAIN referral_events : EntryOfEvent(i, e)}) = 1

\* C19: whenever no handler is running, every account that has a referrer has
\* its (referrer, account, invite) referral event and the invite_reward entry
\* of the referrer.
C19_InviteRewardPaid ==
    (\A s \in Slots : session[s].pc \in {"idle", "done"}) =>
        \A n \in DOMAIN users :
            users[n].referrer_id # 0 =>
                /\ MatchingEvents(users[n].referrer_id, n, "invite") # {}
                /\ RewardEntries(users[n].referrer_id, n, "invite_reward") # {}

\* C20: no step resets is_deposit of an account to false or changes a
\* deposited_at that is set, and after every step is_deposit is true exactly
\* when deposited_at is set.
C20_DepositFlagAndTimestamp ==
    [][/\ \A u \in DOMAIN users :
              /\ users[u].is_deposit => users'[u].is_deposit
              /\ users[u].deposited_at # 0 => users'[u].deposited_at = users[u].deposited_at
       /\ \A u \in DOMAIN users' :
              users'[u].is_deposit <=> users'[u].deposited_at # 0
      ]_vars

\* C21: the log only grows at its end: every step keeps every entry at its
\* position with the same owner, kind, amount, status and metadata, so every
\* entry of a state is in every later state; no pending withdrawal entry is
\* changed and no entry is deleted.
C21_LogAppendOnly ==
    [][/\ Len(transactions') >= Len(transactions)
       /\ \A i \in DOMAIN transactions :
              /\ transactions'[i].user_id = transactions[i].user_id
              /\ transactions'[i].type = transactions[i].type
              /\ transactions'[i].amount_pro = transactions[i].amount_pro
              /\ transactions'[i].status = transactions[i].status
              /\ transactions'[i].meta = transactions[i].meta
      ]_vars

\* a pending withdrawal entry of an account is followed in the log by a later
\* entry of the same account
C21_Witness ==
    \E i \in DOMAIN transactions, k \in DOMAIN transactions :
        /\ i < k
        /\ transactions[i].status = "pending"
        /\ transactions[k].user_id = transactions[i].user_id

\* C22: every log entry is owned by an existing account: its user_id is the
\* id of a row of users, never null.
C22_EntriesOwned ==
    \A i \in DOMAIN transactions :
        /\ transactions[i].user_id # 0
        /\ transactions[i].user_id \in DOMAIN users

\* the log holds a game bonus and the rewards of a referrer, whose owner the
\* handlers take from a lookup of the referrer
C22_Witness ==
    /\ \E i \in DOMAIN transactions : transactions[i].type = "game_bonus"
    /\ \E i \in DOMAIN transactions : transactions[i].type = "invite_reward"
    /\ \E i \in DOMAIN transactions : transactions[i].type = "deposit_reward"

\* C23: a game-play request goes on to the credit only for an account that
\* has deposited and is not banned when the request loads it; a game-play or
\* withdrawal request of a banned account and a game-play request of an account
\* without a deposit are answered 403; none of these steps changes a balance or
\* the log; the credit adds the game reward to the balance the request loaded
\* and one game_bonus entry for that account, changes no other account, and no
\* other step adds a game_bonus entry.
C23_GameEligibility ==
    [][/\ \A s \in Slots :
              /\ (session[s].pc = "idle" /\ session'[s].pc \in {"done", "play_game", "withdraw_funds"}) =>
                     \A x \in 0..MaxUsers :
                         /\ play_game_load(s, x) =>
                                /\ UNCHANGED <<users, transactions>>
                                /\ (x \in DOMAIN users /\ (users[x].banned \/ ~users[x].is_deposit)) =>
                                       session'[s].pc = "done" /\ session'[s].status = 403
                                /\ session'[s].pc = "play_game" =>
                                       /\ x \in DOMAIN users
                                       /\ users[x].is_deposit /\ ~users[x].banned
                                       /\ session'[s].user_id = x /\ session'[s].user = users[x]
                         /\ \A a \in WithdrawAmounts :
                                withdraw_funds_load(s, x, a) =>
                                    /\ UNCHANGED <<users, transactions>>
                                    /\ (x \in DOMAIN users /\ users[x].banned) =>
                                           session'[s].pc = "done" /\ session'[s].status = 403
              /\ (session[s].pc = "play_game" /\ session'[s].pc = "done") =>
                     /\ session[s].user.is_deposit /\ ~session[s].user.banned
                     /\ users'[session[s].user_id].balance_pro =
                            session[s].user.balance_pro + GAME_REWARD
                     /\ \A u \in DOMAIN users \ {session[s].user_id} : users'[u] = users[u]
                     /\ transactions' = Append(transactions,
                            Transaction(session[s].user_id, "game_bonus", GAME_REWARD, "ok", NoMeta))
       /\ \A i \in DOMAIN transactions' \ DOMAIN transactions :
              transactions'[i].type = "game_bonus" =>
                  \E s \in Slots :
                      /\ session[s].pc = "play_game" /\ session'[s].pc = "done"
                      /\ session[s].user_id = transactions'[i].user_id
      ]_vars

\* a request was answered 403 while an account that got a game bonus earlier is
\* banned and another account has not deposited
C23_Witness ==
    /\ \E s \in Slots : session[s].pc = "done" /\ session[s].status = 403
    /\ \E u \in DOMAIN users :
           users[u].banned /\ users[u].is_deposit /\ EntriesOfType(u, "game_bonus") # {}
    /\ \E u \in DOMAIN users : ~users[u].is_deposit

\* the accounts in a sequence of user ids
Range(seq) == {seq[k] : k \in DOMAIN seq}

\* C24: when a pass resolves the audience of a job it takes exactly the accounts
\* that are not banned (and have deposited, for a deposit_only job) at that
\* moment, each once; every send of the pass goes to the next account of that
\* list, so that at the end of the pass the accounts sent to are exactly those;
\* no message is sent outside such a send.
C24_AudienceAtResolve ==
    [][/\ (worker.pc = "resolve" /\ worker'.pc \in {"send", "commit"}) =>
              LET j == worker'.log
                  eligible == {u \in DOMAIN users :
                                  /\ ~users[u].banned
                                  /\ broadcast_logs[j].audience = "deposit_only" => users[u].is_deposit}
              IN /\ j = Head(worker.pending)
                 /\ Range(worker'.users) = eligible
                 /\ Len(worker'.users) = Cardinality(eligible)
                 /\ worker'.sends = << >>
       /\ (worker.pc = "send" /\ worker'.pc \in {"send", "commit"} /\ worker' # worker) =>
              /\ worker'.users = worker.users /\ worker'.log = worker.log
              /\ Len(worker'.sends) = Len(worker.sends) + 1
              /\ SubSeq(worker'.sends, 1, Len(worker.sends)) = worker.sends
              /\ worker'.sends[Len(worker'.sends)].user_id = worker.users[Len(worker.sends) + 1]
       /\ worker.pc = "commit" =>
              /\ Range([k \in DOMAIN worker.sends |-> worker.sends[k].user_id]) = Range(worker.users)
              /\ Len(worker.sends) = Len(worker.users)
       /\ \A j \in DOMAIN delivered : \A u \in DOMAIN delivered[j] :
              delivered'[j][u] # delivered[j][u] =>
                  /\ worker.pc = "send" /\ j = worker.log
                  /\ u = worker.users[Len(worker.sends) + 1]
                  /\ u \in Range(worker.users)
      ]_vars

\* a later pass over a job has sent to its audience, which has lost an account
\* (banned meanwhile) that an earlier pass had sent the message to
C24_Witness ==
    /\ worker.pc = "commit" /\ worker.sends # << >>
    /\ \E u \in DOMAIN users :
           /\ users[u].banned
           /\ delivered[worker.log][u] >= 1
           /\ u \notin Range(worker.users)

\* C25: a step that creates a broadcast job adds one row with sent_ok = 0,
\* sent_fail = 0 and total_users the number of accounts that match the job's
\* audience at that step; no step removes a job or changes its total_users, and
\* the only step that changes sent_ok or sent_fail of a job is the commit of the
\* delivery loop's pass over that job.
C25_JobCountersFrame ==
    [][/\ \A j \in DOMAIN broadcast_logs :
              /\ j \in DOMAIN broadcast_logs'
              /\ broadcast_logs'[j].total_users = broadcast_logs[j].total_users
              /\ broadcast_logs'[j].audience = broadcast_logs[j].audience
              /\ (\/ broadcast_logs'[j].sent_ok # broadcast_logs[j].sent_ok
                  \/ broadcast_logs'[j].sent_fail # broadcast_logs[j].sent_fail) =>
                     /\ worker.pc = "commit" /\ worker.log = j
                     /\ UNCHANGED <<users, transactions, referral_events, offers, session>>
       /\ \A j \in DOMAIN broadcast_logs' \ DOMAIN broadcast_logs :
              /\ j = Len(broadcast_logs) + 1 /\ Len(broadcast_logs') = j
              /\ broadcast_logs'[j].sent_ok = 0
              /\ broadcast_logs'[j].sent_fail = 0
              /\ broadcast_logs'[j].total_users =
                     Cardinality({u \in DOMAIN users :
                         /\ ~users[u].banned
                         /\ broadcast_logs'[j].audience = "deposit_only" => users[u].is_deposit})
      ]_vars

\* a job with persisted counters whose total_users is above its present
\* audience (an account it counted was banned later), next to a log that holds
\* a game bonus and a withdrawal request
C25_Witness ==
    \E j \in DOMAIN broadcast_logs :
        /\ broadcast_logs[j].sent_ok + broadcast_logs[j].sent_fail >= 1
        /\ broadcast_logs[j].total_users >
               Cardinality({u \in DOMAIN users :
                   /\ ~users[u].banned
                   /\ broadcast_logs[j].audience = "deposit_only" => users[u].is_deposit})
        /\ \E i \in DOMAIN transactions : transactions[i].type = "game_bonus"
        /\ \E i \in DOMAIN transactions : transactions[i].type = "withdraw_request"

\* C26: however withdrawal requests of an account interleave, the amounts of
\* its accepted (pending) withdraw_request entries add up to no more than the
\* funds the account was credited with.
C26_WithdrawalsWithinFunds ==
    \A u \in DOMAIN users :
        LogSum(SelectSeq(transactions, LAMBDA t : t.type = "withdraw_request"), u)
            <= LogSum(SelectSeq(transactions, LAMBDA t : t.type # "withdraw_request"), u)

====
